---- MODULE Spec2Model ----
(***************************************************************************)
(* AuraAI backend: the provider manager (backend/providers.py) and the     *)
(* in-process memory store with its HTTP handlers (backend/main.py).       *)
(*                                                                         *)
(* An adapter is identified by the key it is registered under in           *)
(* AIProviderManager.providers.  Python's None is the value None, a raised *)
(* exception is the value Raise.  A text (str) is a sequence of one        *)
(* character strings.                                                      *)
(***************************************************************************)
EXTENDS Integers, Sequences, FiniteSets, TLC

VARIABLES
    env,               \* os.environ and the importable vendor SDKs at startup
    providers,         \* AIProviderManager.providers, in dict insertion order
    primary_provider,  \* AIProviderManager.primary_provider
    avail,             \* what each vendor's is_available() probe returns now
    call,              \* the last provider manager call and what it returned
    memory_store,      \* main.memory_store, in dict insertion order
    chat_history,      \* main.chat_history
    now,               \* what datetime.now() returns
    http,              \* the last request handled and its response
    inflight           \* the requests being served concurrently, by position

vars ==
    <<env, providers, primary_provider, avail, call, memory_store, chat_history,
      now, http, inflight>>

None == "None"
Raise == "Exception"

(***************************************************************************)
(* Sequence helpers                                                        *)
(***************************************************************************)
Range(s) == {s[i] : i \in 1..Len(s)}

(***************************************************************************)
(* backend/providers.py                                                    *)
(***************************************************************************)

\* class AIProvider(str, Enum): member name -> value.
AIProvider ==
    [m \in {"GEMINI", "OPENAI", "ANTHROPIC", "STABILITY", "HUGGINGFACE"} |->
        CASE m = "GEMINI" -> "gemini"
          [] m = "OPENAI" -> "openai"
          [] m = "ANTHROPIC" -> "anthropic"
          [] m = "STABILITY" -> "stability"
          [] m = "HUGGINGFACE" -> "huggingface"]

\* The vendors an adapter class exists for.
Vendors == {"gemini", "openai", "anthropic", "stability", "elevenlabs"}

\* The vendor SDK modules behind an optional import (try: import ... except
\* ImportError: ... = None).
OptionalSdks == {"openai", "anthropic"}

\* Values of PRIMARY_AI_PROVIDER tried: "gemini" (the default of os.getenv), a
\* vendor behind an optional SDK import, an image-only vendor, and a vendor
\* the enum has no member for.
PrimaryNames == {"gemini", "openai", "stability", "elevenlabs"}

\* Provider names a caller passes to the manager (None: no name given).
RequestNames == {None} \cup Vendors

\* self.providers[AIProvider.<member>.value] = <Adapter>(key), inside
\* try/except Exception: the adapter is registered when the guard of the
\* enclosing `if` holds and the enum has the member; a missing member raises
\* AttributeError, which the except swallows.
Register(provs, guard, member) ==
    IF guard /\ member \in DOMAIN AIProvider
    THEN Append(provs, AIProvider[member])
    ELSE provs

\* AIProviderManager.initialize_providers: the adapter mapping.
InitialProviders(e) ==
    LET p1 == Register(<<>>, "gemini" \in e.keys, "GEMINI")
        p2 == Register(p1, "openai" \in e.keys /\ "openai" \in e.sdks, "OPENAI")
        p3 == Register(p2, "anthropic" \in e.keys /\ "anthropic" \in e.sdks, "ANTHROPIC")
        p4 == Register(p3, "stability" \in e.keys, "STABILITY")
        p5 == Register(p4, "elevenlabs" \in e.keys, "ELEVENLABS")
    IN  p5

\* initialize_providers taking the first registered adapter as primary
\* whatever PRIMARY_AI_PROVIDER says.
Mut_InitialPrimary(e, provs) ==
    IF provs # <<>> THEN provs[1] ELSE None

\* AIProviderManager.initialize_providers: the primary provider.
InitialPrimary(e, provs) ==
    IF e.primary \in Range(provs) THEN e.primary
    ELSE IF provs # <<>> THEN provs[1]
    ELSE None

\* self.providers.get(name)
ProvidersGet(name) == IF name \in Range(providers) THEN name ELSE None

\* adapter.is_available(): the probe swallows every error as False.
is_available(p) == avail[p]

\* get_provider without the fallback to the primary adapter.
Mut_get_provider(provider_name) ==
    IF provider_name # None /\ provider_name \in Range(providers)
    THEN provider_name
    ELSE Raise

\* AIProviderManager.get_provider
get_provider(provider_name) ==
    IF provider_name # None /\ provider_name \in Range(providers)
    THEN provider_name
    ELSE IF primary_provider # None /\ primary_provider \in Range(providers)
    THEN primary_provider
    ELSE Raise

\* The block every capability selector starts with:
\*   if provider_name:
\*       try:
\*           provider = self.get_provider(provider_name)
\*           if provider and provider.is_available(): return provider
\*       except Exception: return None
\* Yields the value returned, or "fallthrough" when control leaves the block.
ExplicitBlock(provider_name) ==
    IF provider_name = None THEN "fallthrough"
    ELSE LET provider == get_provider(provider_name)
         IN  IF provider = Raise THEN None
             ELSE IF is_available(provider) THEN provider
             ELSE "fallthrough"

\* for name in order: provider = self.providers.get(name); if provider and
\* provider.is_available(): return provider  ...  return None
RECURSIVE FirstAvailable(_)
FirstAvailable(order) ==
    IF order = <<>> THEN None
    ELSE LET provider == ProvidersGet(Head(order))
         IN  IF provider # None /\ is_available(provider) THEN provider
             ELSE FirstAvailable(Tail(order))

\* The text preference list with Gemini moved to the front.
Mut_TextOrder == <<AIProvider["GEMINI"], AIProvider["OPENAI"], AIProvider["ANTHROPIC"]>>

\* get_text_provider: for name in [OPENAI, ANTHROPIC, GEMINI]
TextOrder == <<AIProvider["OPENAI"], AIProvider["ANTHROPIC"], AIProvider["GEMINI"]>>

\* The image preference list with OpenAI ahead of Stability.
Mut_ImageOrder == <<AIProvider["OPENAI"], AIProvider["STABILITY"], AIProvider["GEMINI"]>>

\* get_image_provider: for name in [STABILITY, OPENAI, GEMINI]
ImageOrder == <<AIProvider["STABILITY"], AIProvider["OPENAI"], AIProvider["GEMINI"]>>

\* AIProviderManager.get_text_provider
get_text_provider(provider_name) ==
    LET r == ExplicitBlock(provider_name)
    IN  IF r # "fallthrough" THEN r ELSE FirstAvailable(TextOrder)

\* AIProviderManager.get_image_provider
get_image_provider(provider_name) ==
    LET r == ExplicitBlock(provider_name)
    IN  IF r # "fallthrough" THEN r ELSE FirstAvailable(ImageOrder)

\* AIProviderManager.get_voice_provider
get_voice_provider(provider_name) ==
    LET r == ExplicitBlock(provider_name)
        hf == ProvidersGet(AIProvider["HUGGINGFACE"])
        provider == IF hf # None THEN hf ELSE ProvidersGet(AIProvider["OPENAI"])
    IN  IF r # "fallthrough" THEN r
        ELSE IF "elevenlabs" \in Range(providers) /\ is_available("elevenlabs")
        THEN "elevenlabs"
        ELSE IF provider # None /\ is_available(provider) THEN provider
        ELSE None

\* get_video_provider falling back to the primary adapter when Gemini is not
\* usable.
Mut_get_video_provider(provider_name) ==
    LET r == ExplicitBlock(provider_name)
        candidate == ProvidersGet(AIProvider["GEMINI"])
    IN  IF r # "fallthrough" THEN r
        ELSE IF candidate # None /\ is_available(candidate) THEN candidate
        ELSE IF primary_provider # None /\ is_available(primary_provider)
        THEN primary_provider
        ELSE None

\* AIProviderManager.get_video_provider
get_video_provider(provider_name) ==
    LET r == ExplicitBlock(provider_name)
        candidate == ProvidersGet(AIProvider["GEMINI"])
    IN  IF r # "fallthrough" THEN r
        ELSE IF candidate # None /\ is_available(candidate) THEN candidate
        ELSE None

NoCall == [op |-> "none", name |-> None, result |-> None]

\* AIProviderManager.__init__ for one environment.
ManagerInit(e) ==
    /\ env = e
    /\ providers = InitialProviders(e)
    /\ primary_provider = InitialPrimary(e, InitialProviders(e))
    /\ call = NoCall

Environments ==
    [keys : SUBSET Vendors, sdks : SUBSET OptionalSdks, primary : PrimaryNames]

managerVars == <<env, providers, primary_provider>>
memoryVars == <<memory_store, chat_history, now, http, inflight>>

\* A vendor endpoint or credential goes down or comes back.  The last call's
\* and the last request's results were computed for the availability of that
\* moment, so they are no longer observations of the current state.
VendorChange(v) ==
    /\ avail' = [avail EXCEPT ![v] = ~avail[v]]
    /\ call' = NoCall
    /\ http' = [op |-> "none"]
    /\ UNCHANGED <<managerVars, memory_store, chat_history, now, inflight>>

\* A manager call that deregisters the adapters whose probe fails.
Mut_Called(op, name, result) ==
    /\ call' = [op |-> op, name |-> name, result |-> result]
    /\ providers' = SelectSeq(providers, is_available)
    /\ UNCHANGED <<env, primary_provider, avail, memoryVars>>

\* A call of a provider manager method: it returns `result` and assigns to
\* no attribute of the manager.
Called(op, name, result) ==
    /\ call' = [op |-> op, name |-> name, result |-> result]
    /\ UNCHANGED <<managerVars, avail, memoryVars>>

GetProvider(name) == Called("get_provider", name, get_provider(name))
GetTextProvider(name) == Called("get_text_provider", name, get_text_provider(name))
GetImageProvider(name) == Called("get_image_provider", name, get_image_provider(name))
GetVoiceProvider(name) == Called("get_voice_provider", name, get_voice_provider(name))
GetVideoProvider(name) == Called("get_video_provider", name, get_video_provider(name))

\* list_available_providers dropping the adapters whose probe fails.
Mut_list_available_providers ==
    LET live == {name \in Range(providers) : is_available(name)}
    IN  [name \in live |-> TRUE]

\* AIProviderManager.list_available_providers: every adapter of the mapping
\* is probed; the adapters' probes return a bool and never raise, so the
\* except branch (status[name] = False) is never taken.
list_available_providers ==
    [name \in Range(providers) |-> is_available(name)]

ListAvailableProviders ==
    Called("list_available_providers", None, list_available_providers)

\* AIProviderManager.get_provider_info
get_provider_info ==
    [primary_provider |-> primary_provider,
     available_providers |-> providers,
     status |-> list_available_providers]

GetProviderInfo == Called("get_provider_info", None, get_provider_info)

EmptyStore == <<>>
NoRequest == [op |-> "none"]

InitManager ==
    /\ \E e \in Environments : ManagerInit(e)
    /\ avail \in [Vendors -> BOOLEAN]
    /\ memory_store = EmptyStore
    /\ chat_history = <<>>
    /\ now = 0
    /\ http = NoRequest
    /\ inflight = <<>>

NextManager ==
    \/ \E v \in Vendors : VendorChange(v)
    \/ \E name \in RequestNames : GetProvider(name)
    \/ \E name \in RequestNames : GetTextProvider(name)
    \/ \E name \in RequestNames : GetImageProvider(name)
    \/ \E name \in RequestNames : GetVoiceProvider(name)
    \/ \E name \in RequestNames : GetVideoProvider(name)
    \/ ListAvailableProviders
    \/ GetProviderInfo

SpecManager == InitManager /\ [][NextManager]_vars

(***************************************************************************)
(* backend/providers.py: the adapters                                      *)
(***************************************************************************)

\* A str literal of the program, kept whole: a text of one element.  Only its
\* identity and its truthiness are ever used.
Str(literal) == <<literal>>

\* What the vendor does with one request: it answers with content, it answers
\* with empty content, or the call fails (authentication, rate limit, network).
Replies == {"text", "empty", "error"}

\* The content of a vendor's answer.
ReplyText == <<"r">>

\* A method call that returned `value`.
Returned(value, called) ==
    [raised |-> FALSE, value |-> value, vendor_called |-> called]

\* A method call that raised an exception of class `error`.
Raised(error, called) ==
    [raised |-> TRUE, error |-> error, vendor_called |-> called]

\* The methods each adapter class defines or inherits (BaseAIProvider
\* declares generate_text, generate_image and is_available; no class defines
\* generate_video).
AdapterMethods(v) ==
    {"generate_text", "generate_image", "is_available"}
        \cup (IF v = "elevenlabs" THEN {"text_to_speech"} ELSE {})

\* <Adapter>.generate_text
generate_text(v, reply) ==
    CASE v = "gemini" ->
            IF reply = "error" THEN Raised("Exception", TRUE)
            ELSE IF reply = "text" THEN Returned(ReplyText, TRUE)
            ELSE Returned(Str("No response generated"), TRUE)
      [] v \in {"openai", "anthropic"} ->
            IF reply = "error" THEN Raised("Exception", TRUE)
            ELSE IF reply = "text" THEN Returned(ReplyText, TRUE)
            ELSE Returned(<<>>, TRUE)
      [] OTHER -> Raised("NotImplementedError", FALSE)

\* <Adapter>.generate_image (the requests package is installed)
generate_image(v, reply) ==
    CASE v = "gemini" ->
            IF reply = "error" THEN Raised("Exception", TRUE)
            ELSE IF reply = "text" THEN Returned(ReplyText, TRUE)
            ELSE Returned(Str("Image generation initiated"), TRUE)
      [] v = "openai" ->
            IF reply = "error" THEN Raised("Exception", TRUE)
            ELSE IF reply = "text" THEN Returned(ReplyText, TRUE)
            ELSE Returned(Str("Image generation failed"), TRUE)
      [] v = "stability" ->
            IF reply = "error" THEN Raised("Exception", TRUE)
            ELSE Returned(Str("Image generated successfully"), TRUE)
      [] OTHER -> Raised("NotImplementedError", FALSE)

\* ElevenLabsProvider.text_to_speech
text_to_speech(v, reply) ==
    IF reply = "error" THEN Raised("Exception", TRUE)
    ELSE Returned(Str("Audio generated successfully"), TRUE)

\* adapter.<method>(...): an attribute the object does not have raises
\* AttributeError before anything is called.
Invoke(v, method, reply) ==
    IF method \notin AdapterMethods(v) THEN Raised("AttributeError", FALSE)
    ELSE CASE method = "generate_text" -> generate_text(v, reply)
           [] method = "generate_image" -> generate_image(v, reply)
           [] method = "text_to_speech" -> text_to_speech(v, reply)
           [] method = "is_available" -> Returned(is_available(v), TRUE)

\* The methods callers invoke on an adapter.
Methods ==
    {"generate_text", "generate_image", "text_to_speech", "generate_video",
     "is_available"}

\* One method call on the adapter object of vendor v.
AdapterCall(v, method, reply) ==
    /\ call' = [op |-> "adapter", name |-> v, method |-> method, reply |-> reply,
                result |-> Invoke(v, method, reply)]
    /\ UNCHANGED <<managerVars, avail, memoryVars>>

\* Every credential present and every SDK installed.
AllKeys == [keys |-> Vendors, sdks |-> OptionalSdks, primary |-> "gemini"]

InitAdapter ==
    /\ ManagerInit(AllKeys)
    /\ avail = [v \in Vendors |-> TRUE]
    /\ memory_store = <<>>
    /\ chat_history = <<>>
    /\ now = 0
    /\ http = [op |-> "none"]
    /\ inflight = <<>>

NextAdapter ==
    \/ \E v \in Vendors : VendorChange(v)
    \/ \E v \in Vendors, method \in Methods, reply \in Replies :
          AdapterCall(v, method, reply)

SpecAdapter == InitAdapter /\ [][NextAdapter]_vars

(***************************************************************************)
(* backend/main.py: process startup.  The other specifications describe    *)
(* the handlers as written, for a process in which main.py was loaded.     *)
(***************************************************************************)

\* The methods class AIProviderManager defines.
ManagerMethods ==
    {"__init__", "initialize_providers", "get_provider", "get_text_provider",
     "get_image_provider", "get_voice_provider", "get_video_provider",
     "list_available_providers", "get_provider_info"}

\* provider_manager.<method>() for a method without arguments: an attribute
\* the object does not have raises AttributeError.
ManagerCall(method) ==
    IF method \notin ManagerMethods THEN Raised("AttributeError", FALSE)
    ELSE CASE method = "list_available_providers" ->
                  Returned(list_available_providers, FALSE)
           [] method = "get_provider_info" -> Returned(get_provider_info, FALSE)

\* The module body of main.py from `provider_manager = AIProviderManager()`
\* to the end of the startup gate:
\*   if not provider_manager.is_any_provider_available(): raise ValueError(...)
\* An exception leaves the module unloaded, and no application is served.
StartupGate ==
    LET gate == ManagerCall("is_any_provider_available")
    IN  IF gate.raised THEN [started |-> FALSE, error |-> gate.error]
        ELSE IF ~gate.value THEN [started |-> FALSE, error |-> "ValueError"]
        ELSE [started |-> TRUE, error |-> None]

\* The process is started.
Startup ==
    /\ call.op = "none"
    /\ Called("startup", None, StartupGate)

InitStartup ==
    /\ \E e \in Environments : ManagerInit(e)
    /\ avail = [v \in Vendors |-> TRUE]
    /\ memory_store = <<>>
    /\ chat_history = <<>>
    /\ now = 0
    /\ http = [op |-> "none"]
    /\ inflight = <<>>

NextStartup ==
    \/ \E v \in Vendors : VendorChange(v)
    \/ Startup

SpecStartup == InitStartup /\ [][NextStartup]_vars

(***************************************************************************)
(* backend/providers.py: the same selection made again after a vendor's    *)
(* availability changed                                                    *)
(***************************************************************************)

\* self.<op>(provider_name) for a capability selector.
Select(op, name) ==
    CASE op = "get_text_provider" -> get_text_provider(name)
      [] op = "get_image_provider" -> get_image_provider(name)
      [] op = "get_voice_provider" -> get_voice_provider(name)
      [] op = "get_video_provider" -> get_video_provider(name)

\* A vendor goes down or comes back after a selection was made; the
\* selection made before is kept aside as `was`.
Outage(v) ==
    /\ call.op # "none"
    /\ avail' = [avail EXCEPT ![v] = ~avail[v]]
    /\ call' = IF call.op = "stale" THEN call ELSE [op |-> "stale", was |-> call]
    /\ UNCHANGED <<managerVars, memoryVars>>

\* The selector answering a repeated call with what it answered before.
Mut_Recalled(op, name, first, result) ==
    /\ call' = [op |-> op, name |-> name, result |-> first, first |-> first]
    /\ UNCHANGED <<managerVars, avail, memoryVars>>

\* A selector call that follows an earlier call with the same arguments:
\* `first` is what the earlier call returned, `result` what this one returns.
Recalled(op, name, first, result) ==
    /\ call' = [op |-> op, name |-> name, result |-> result, first |-> first]
    /\ UNCHANGED <<managerVars, avail, memoryVars>>

\* The selection of before the availability change, made again.
Reselect ==
    /\ call.op = "stale"
    /\ Recalled(call.was.op, call.was.name, call.was.result,
                Select(call.was.op, call.was.name))

\* Environments with the text and image vendors' keys set.
RecheckEnvironments ==
    {e \in Environments :
        /\ e.sdks = OptionalSdks
        /\ e.primary = "gemini"
        /\ {"gemini", "openai", "stability"} \subseteq e.keys}

InitRecheck ==
    /\ \E e \in RecheckEnvironments : ManagerInit(e)
    /\ avail \in [Vendors -> BOOLEAN]
    /\ memory_store = <<>>
    /\ chat_history = <<>>
    /\ now = 0
    /\ http = [op |-> "none"]
    /\ inflight = <<>>

NextRecheck ==
    \/ \E v \in Vendors : Outage(v)
    \/ Reselect
    \/ \E name \in RequestNames : GetTextProvider(name)
    \/ \E name \in RequestNames : GetImageProvider(name)
    \/ \E name \in RequestNames : GetVoiceProvider(name)
    \/ \E name \in RequestNames : GetVideoProvider(name)

SpecRecheck == InitRecheck /\ [][NextRecheck]_vars

(***************************************************************************)
(* backend/main.py: the memory store                                       *)
(***************************************************************************)

\* str.lower() on one character.
LowerChar(c) ==
    CASE c = "A" -> "a"
      [] c = "B" -> "b"
      [] OTHER -> c

\* str.lower()
Lower(s) == [i \in 1..Len(s) |-> LowerChar(s[i])]

\* Characters str.split() treats as separators.
IsSpace(c) == c = " "

\* str.split() with no argument: the maximal runs of non-whitespace
\* characters, left to right; `cur` is the word being read.
RECURSIVE SplitFrom(_, _)
SplitFrom(s, cur) ==
    IF s = <<>> THEN (IF cur = <<>> THEN <<>> ELSE <<cur>>)
    ELSE IF IsSpace(Head(s))
    THEN (IF cur = <<>> THEN SplitFrom(Tail(s), <<>>)
          ELSE <<cur>> \o SplitFrom(Tail(s), <<>>))
    ELSE SplitFrom(Tail(s), Append(cur, Head(s)))

Split(s) == SplitFrom(s, <<>>)

\* `word in text` for two str values.
Contains(text, word) ==
    \E i \in 0..(Len(text) - Len(word)) : SubSeq(text, i + 1, i + Len(word)) = word

\* sep.join(parts)
RECURSIVE Join(_, _)
Join(sep, parts) ==
    IF parts = <<>> THEN <<>>
    ELSE IF Len(parts) = 1 THEN parts[1]
    ELSE parts[1] \o sep \o Join(sep, Tail(parts))

\* s[:k] for a list or str s and an int k (a negative k counts from the end).
SliceTo(s, k) ==
    IF k >= 0 THEN SubSeq(s, 1, IF k < Len(s) THEN k ELSE Len(s))
    ELSE SubSeq(s, 1, IF Len(s) + k > 0 THEN Len(s) + k ELSE 0)

\* The list `results` search_memory builds: the text of every record, in
\* store order, any word of the lowercased query occurs in.
SearchResults(store, query) ==
    LET words == Split(Lower(query))
        Hit(value) == \E w \in 1..Len(words) : Contains(Lower(value.text), words[w])
        hits == SelectSeq(store, Hit)
    IN  [i \in 1..Len(hits) |-> hits[i].text]

\* search_memory(query, top_k)
search_memory(store, query, top_k) ==
    IF store = <<>> THEN <<>>
    ELSE Join(<<" ">>, SliceTo(SearchResults(store, query), top_k))

\* An Optional[Dict] argument is <<>> for None and <<d>> for the dict d; a
\* dict is its set of items.  `metadata or {}`: None and the empty dict are
\* both falsy.
OrEmptyDict(metadata) ==
    IF metadata = <<>> THEN {}
    ELSE IF metadata[1] = {} THEN {} ELSE metadata[1]

\* Index of the record stored under key `id`, 0 when the key is absent.
IndexOf(store, id) ==
    IF \E i \in 1..Len(store) : store[i].id = id
    THEN CHOOSE i \in 1..Len(store) : store[i].id = id
    ELSE 0

\* store_memory appending a record on every call, also under a key the store
\* already holds.
Mut_store_memory(store, memory_id, text, metadata, stamp) ==
    Append(store, [id |-> memory_id, text |-> text,
                   metadata |-> OrEmptyDict(metadata),
                   timestamp |-> stamp, embeddings |-> text])

\* store_memory updating the fields of a record the store already holds one
\* by one, and stopping after the text.
Mut_UpdateInPlace(store, memory_id, text, metadata, stamp) ==
    LET i == IndexOf(store, memory_id)
    IN  IF i = 0
        THEN Append(store, [id |-> memory_id, text |-> text,
                            metadata |-> OrEmptyDict(metadata),
                            timestamp |-> stamp, embeddings |-> text])
        ELSE [store EXCEPT ![i].text = text, ![i].embeddings = text]

\* store_memory: memory_store[memory_id] = {...}.  Assigning to a key a dict
\* already holds keeps the key's position; a new key goes last.
store_memory(store, memory_id, text, metadata, stamp) ==
    LET value == [id |-> memory_id, text |-> text,
                  metadata |-> OrEmptyDict(metadata),
                  timestamp |-> stamp, embeddings |-> text]
        i == IndexOf(store, memory_id)
    IN  IF i = 0 THEN Append(store, value)
        ELSE [store EXCEPT ![i] = value]

\* del memory_store[memory_id]
DelKey(store, memory_id) ==
    LET Keep(value) == value.id # memory_id
    IN  SelectSeq(store, Keep)

\* raise HTTPException(status_code=..., detail=...)
HTTPException(status_code, detail) ==
    [raised |-> TRUE, status |-> status_code, detail |-> detail]

\* return JSONResponse({...}): status 200.
JSONResponse(body) == [raised |-> FALSE, status |-> 200, body |-> body]

\* The handlers' `try: ... except Exception as e: raise HTTPException(
\* status_code=500, detail=...)`: HTTPException is an Exception, so one raised
\* inside the try is caught and replaced as well.
ExceptException(outcome, detail) ==
    IF outcome.raised THEN HTTPException(500, detail) ELSE outcome

\* The body of delete_memory's try block.
DeleteBody(store, memory_id) ==
    IF IndexOf(store, memory_id) # 0
    THEN JSONResponse([status |-> "success"])
    ELSE HTTPException(404, "Memory not found")

\* v.get("text", "")[:100] + "..."
PreviewLen == 100
Preview(text) == SliceTo(text, PreviewLen) \o <<".", ".", ".">>

\* Inputs of the memory requests.
MemoryIds == {"m1", "m2"}
Texts == {<<"A", "b">>, <<"b", " ", "a">>, <<"c">>}
Metadatas == {<<>>, <<{}>>, <<{<<"test", TRUE>>}>>}
Prompts == {<<>>, <<" ">>, <<"a">>, <<"A", "B">>, <<"b", " ", "c">>, <<"b", "a">>}
TopKs == {-1, 0, 1, 2, 3}
MaxClock == 1

\* The system clock advances between two reads of datetime.now().
Tick ==
    /\ now < MaxClock
    /\ now' = now + 1
    /\ UNCHANGED <<managerVars, avail, call, memory_store, chat_history, http,
                   inflight>>

\* A request handler ran to its response: the store and the chat history it
\* leaves, and the observation of the request (the store, the history and
\* the clock it started from).
Responded(request, outcome, store, history) ==
    /\ http' = [op |-> request.op, request |-> request, before |-> memory_store,
                history |-> chat_history, at |-> now, response |-> outcome]
    /\ memory_store' = store
    /\ chat_history' = history
    /\ UNCHANGED <<managerVars, avail, call, now, inflight>>

\* A handler that does not touch the chat history.
Handled(request, outcome, store) ==
    Responded(request, outcome, store, chat_history)

\* POST /ingest
IngestMemory(id, text, metadata) ==
    Handled([op |-> "ingest", id |-> id, text |-> text, metadata |-> metadata],
            ExceptException(JSONResponse([status |-> "success"]),
                            "Memory ingestion failed"),
            store_memory(memory_store, id, text, metadata, now))

\* query_memory keeping the prompt as a memory record.
Mut_QueryMemory(prompt, top_k) ==
    Handled([op |-> "query", prompt |-> prompt, top_k |-> top_k],
            JSONResponse([context |-> search_memory(memory_store, prompt, top_k),
                          total_items |-> Len(memory_store)]),
            store_memory(memory_store, "query", prompt, <<>>, now))

\* POST /query
QueryMemory(prompt, top_k) ==
    Handled([op |-> "query", prompt |-> prompt, top_k |-> top_k],
            ExceptException(
                JSONResponse([context |-> search_memory(memory_store, prompt, top_k),
                              total_items |-> Len(memory_store)]),
                "Memory query failed"),
            memory_store)

\* DELETE /memory/{memory_id}
DeleteMemory(memory_id) ==
    Handled([op |-> "delete", id |-> memory_id],
            ExceptException(DeleteBody(memory_store, memory_id),
                            "Memory deletion failed"),
            IF IndexOf(memory_store, memory_id) # 0
            THEN DelKey(memory_store, memory_id)
            ELSE memory_store)

\* GET /memory/all
ListAllMemory ==
    Handled([op |-> "list"],
            JSONResponse([items |-> Len(memory_store),
                          memories |-> [i \in 1..Len(memory_store) |->
                              [id |-> memory_store[i].id,
                               timestamp |-> memory_store[i].timestamp,
                               preview |-> Preview(memory_store[i].text)]]]),
            memory_store)

\* The process after startup with GEMINI_API_KEY alone in the environment.
GeminiOnly == [keys |-> {"gemini"}, sdks |-> OptionalSdks, primary |-> "gemini"]

InitMemory ==
    /\ ManagerInit(GeminiOnly)
    /\ avail = [v \in Vendors |-> TRUE]
    /\ memory_store = EmptyStore
    /\ chat_history = <<>>
    /\ now = 0
    /\ http = NoRequest
    /\ inflight = <<>>

NextMemory ==
    \/ Tick
    \/ \E id \in MemoryIds, text \in Texts, metadata \in Metadatas :
          IngestMemory(id, text, metadata)
    \/ \E prompt \in Prompts, top_k \in TopKs : QueryMemory(prompt, top_k)
    \/ \E id \in MemoryIds : DeleteMemory(id)
    \/ ListAllMemory

SpecMemory == InitMemory /\ [][NextMemory]_vars

(***************************************************************************)
(* backend/main.py: ingest requests served concurrently                    *)
(***************************************************************************)

\* The ingest requests in flight: two with different text and metadata and
\* one without metadata, all for the same id.
ConcurrentRequests ==
    <<[op |-> "ingest", id |-> "m1", text |-> <<"A", "b">>,
       metadata |-> <<{<<"test", TRUE>>}>>],
      [op |-> "ingest", id |-> "m1", text |-> <<"c">>, metadata |-> <<>>],
      [op |-> "ingest", id |-> "m1", text |-> <<"b", " ", "a">>,
       metadata |-> <<{<<"n", 2>>}>>]>>

\* The store the requests arrive at: a record under another id, with or
\* without an older record under the requests' id.
ConcurrentStores ==
    LET other == store_memory(<<>>, "m2", <<"c">>, <<{<<"test", TRUE>>}>>, 0)
    IN  {other, store_memory(other, "m1", <<"o">>, <<>>, 0),
         store_memory(store_memory(<<>>, "m1", <<"o">>, <<>>, 0),
                      "m2", <<"c">>, <<{<<"test", TRUE>>}>>, 0)}

\* The position of request i moves on; what it has read or written so far
\* is kept with it.
Moved(i, position, notes) ==
    inflight' = [inflight EXCEPT ![i] = notes @@ [pc |-> position] @@ @]

\* store_memory, first half: the dict display is evaluated, reading the
\* clock, before anything is assigned.
BuildRecord(i) ==
    /\ inflight[i].pc = "received"
    /\ Moved(i, "built", [stamp |-> now])
    /\ UNCHANGED <<managerVars, avail, call, memory_store, chat_history, now,
                   http>>

\* store_memory, second half: memory_store[memory_id] = <the dict built>,
\* one subscript assignment.
AssignRecord(i) ==
    LET request == ConcurrentRequests[i]
        written == {j \in DOMAIN inflight : "order" \in DOMAIN inflight[j]}
    IN  /\ inflight[i].pc = "built"
        /\ memory_store' = store_memory(memory_store, request.id, request.text,
                                        request.metadata, inflight[i].stamp)
        /\ Moved(i, "stored", [order |-> Cardinality(written) + 1])
        /\ UNCHANGED <<managerVars, avail, call, chat_history, now, http>>

\* ingest_memory returns its JSONResponse.
RespondIngest(i) ==
    /\ inflight[i].pc = "stored"
    /\ Moved(i, "done", <<>>)
    /\ http' = [op |-> "ingest", request |-> ConcurrentRequests[i],
                before |-> memory_store, history |-> chat_history, at |-> now,
                response |-> JSONResponse([status |-> "success"])]
    /\ UNCHANGED <<managerVars, avail, call, memory_store, chat_history, now>>

InitConcurrent ==
    /\ ManagerInit(GeminiOnly)
    /\ avail = [v \in Vendors |-> TRUE]
    /\ memory_store \in ConcurrentStores
    /\ chat_history = <<>>
    /\ now = 0
    /\ http = NoRequest
    /\ inflight = [i \in DOMAIN ConcurrentRequests |-> [pc |-> "received"]]

NextConcurrent ==
    \/ Tick
    \/ \E i \in DOMAIN ConcurrentRequests : BuildRecord(i)
    \/ \E i \in DOMAIN ConcurrentRequests : AssignRecord(i)
    \/ \E i \in DOMAIN ConcurrentRequests : RespondIngest(i)

SpecConcurrent == InitConcurrent /\ [][NextConcurrent]_vars

(***************************************************************************)
(* backend/main.py: chat, synthesis, image, video and intent handlers      *)
(***************************************************************************)

\* Python's None where a str may stand; like the empty str it is falsy.
PyNone == <<None>>
Falsy(text) == text = <<>> \/ text = PyNone

\* A function that returned `value`.
Value(value) == [raised |-> FALSE, value |-> value]

\* s[k:] for a list s and an int k (a negative k counts from the end).
SliceFrom(s, k) ==
    LET start == IF k >= 0 THEN (IF k < Len(s) THEN k ELSE Len(s))
                 ELSE (IF Len(s) + k > 0 THEN Len(s) + k ELSE 0)
    IN  SubSeq(s, start + 1, Len(s))

\* n copies of the character c.
Repeat(c, n) == [i \in 1..n |-> c]

\* search_memory's default top_k.
DefaultTopK == 3

\* generate_text_response: the memory lookup, the provider selection and the
\* adapter call, inside try/except Exception.
generate_text_response(messages, use_memory, provider_name, reply) ==
    LET long_term_context ==
            IF use_memory /\ messages # <<>>
            THEN search_memory(memory_store, messages[Len(messages)].content,
                               DefaultTopK)
            ELSE <<>>
        provider == get_text_provider(provider_name)
        response == Invoke(provider, "generate_text", reply)
        body == IF provider = None
                THEN HTTPException(503, "No text generation provider available")
                ELSE IF response.raised THEN response
                ELSE Value(IF Falsy(response.value)
                           THEN Str("Error generating response")
                           ELSE response.value)
    IN  ExceptException(body, "Text generation failed")

\* generate_image of main.py: the selection and the adapter call, inside
\* try/except Exception; the function has no return statement, so a call that
\* does not raise returns None.
main_generate_image(provider_name, reply) ==
    LET provider == get_image_provider(provider_name)
        image_data == Invoke(provider, "generate_image", reply)
        body == IF provider = None
                THEN HTTPException(503, "No image generation provider available")
                ELSE IF image_data.raised THEN image_data
                ELSE Value(PyNone)
    IN  ExceptException(body, "Image generation failed")

\* content[:5000] in generate_synthesis.
SynthesisLimit == 5000

\* generate_synthesis(content, target_language): the provider is looked up
\* under the name PRIMARY_AI_PROVIDER holds; `prompt` is the part of the
\* request content put into the prompt.
generate_synthesis(content, reply) ==
    LET provider == get_text_provider(env.primary)
        response == Invoke(provider, "generate_text", reply)
        body == IF provider = None
                THEN HTTPException(503, "No text synthesis provider available")
                ELSE IF response.raised THEN response
                ELSE [raised |-> FALSE,
                      value |-> IF Falsy(response.value)
                                THEN Str("Synthesis not available")
                                ELSE response.value,
                      prompt |-> SliceTo(content, SynthesisLimit)]
    IN  ExceptException(body, "Synthesis generation failed")

\* A call f(**keywords) of a function with the parameters `parameters`: a
\* keyword that names no parameter raises TypeError before the body runs.
CallWithKeywords(parameters, keywords, result) ==
    IF keywords \subseteq parameters THEN result
    ELSE Raised("TypeError", FALSE)

\* The auto-commit threshold of chat: len(last_msg) > 20.
AutoCommitMinLen == 20

\* f"chat-{datetime.now().timestamp()}"
ChatId(stamp) == "chat-" \o ToString(stamp)

\* The store after chat's auto-commit.
AutoCommit(store, request, stamp) ==
    LET last_msg == request.messages[Len(request.messages)].content
    IN  IF request.messages # <<>> /\ Len(last_msg) > AutoCommitMinLen
        THEN store_memory(store, ChatId(stamp), last_msg,
                          <<{<<"role", "user">>,
                             <<"language", request.target_language>>,
                             <<"provider", request.provider>>}>>,
                          stamp)
        ELSE store

\* Requests of POST /chat: no message, a last message of 20 characters and
\* one of 21, with and without the memory lookup.
ChatRequests ==
    {[op |-> "chat", messages |-> <<>>, use_memory |-> TRUE,
      target_language |-> "English", provider |-> None],
     [op |-> "chat",
      messages |-> <<[role |-> "user", content |-> Repeat("a", 20)]>>,
      use_memory |-> FALSE, target_language |-> "English", provider |-> None],
     [op |-> "chat",
      messages |-> <<[role |-> "user", content |-> Repeat("a", 21)]>>,
      use_memory |-> TRUE, target_language |-> "Hindi", provider |-> None]}

\* Vendor outcomes tried in the handlers.
HandlerReplies == {"text", "error"}

\* Chat history entries kept before the model stops taking chats.
MaxHistory == 2

\* chat_history with chat's entry put first instead of last.
Mut_HistoryAfterChat(history, request, response, stamp) ==
    <<[timestamp |-> stamp, messages |-> request, response |-> response]>>
        \o history

\* chat_history.append({"timestamp": ..., "messages": request.dict(),
\* "response": response})
HistoryAfterChat(history, request, response, stamp) ==
    Append(history,
           [timestamp |-> stamp, messages |-> request, response |-> response])

\* chat appending to the history and committing to memory before it knows
\* whether generation succeeded.
Mut_Chat(request, reply) ==
    LET response == generate_text_response(request.messages, request.use_memory,
                                           request.provider, reply)
    IN  /\ Len(chat_history) < MaxHistory
        /\ Responded(
               request @@ [reply |-> reply],
               IF ~response.raised
               THEN JSONResponse([response |-> response.value,
                                  language |-> request.target_language,
                                  provider |-> request.provider,
                                  timestamp |-> now])
               ELSE ExceptException(response, "Chat processing failed"),
               AutoCommit(memory_store, request, now),
               HistoryAfterChat(chat_history, request,
                                IF response.raised THEN <<>> ELSE response.value,
                                now))

\* POST /chat.  The handler's readings of the clock are one reading: the
\* request is served within one tick.
Chat(request, reply) ==
    LET response == generate_text_response(request.messages, request.use_memory,
                                           request.provider, reply)
        done == ~response.raised
    IN  /\ Len(chat_history) < MaxHistory
        /\ Responded(
               request @@ [reply |-> reply],
               IF done
               THEN JSONResponse([response |-> response.value,
                                  language |-> request.target_language,
                                  provider |-> request.provider,
                                  timestamp |-> now])
               ELSE ExceptException(response, "Chat processing failed"),
               IF done THEN AutoCommit(memory_store, request, now)
               ELSE memory_store,
               IF done
               THEN HistoryAfterChat(chat_history, request, response.value, now)
               ELSE chat_history)

\* GET /chat-history?limit=...
GetChatHistory(limit) ==
    Handled([op |-> "get_history", limit |-> limit],
            JSONResponse([total |-> Len(chat_history),
                          history |-> SliceFrom(chat_history, 0 - limit)]),
            memory_store)

\* DELETE /chat-history
ClearChatHistory ==
    Responded([op |-> "clear_history"],
              JSONResponse([status |-> "success"]),
              memory_store, <<>>)

\* Request contents of POST /synthesize: a short one and one of 5001
\* characters.
SynthesisContents == {<<"a", "b">>, Repeat("a", 5001)}

\* POST /synthesize: generate_synthesis is called with content,
\* target_language and provider_name.
Synthesize(content, provider_name, reply) ==
    LET synthesis ==
            CallWithKeywords({"content", "target_language"},
                             {"content", "target_language", "provider_name"},
                             generate_synthesis(content, reply))
    IN  Handled([op |-> "synthesize", content |-> content,
                 provider |-> provider_name, reply |-> reply],
                IF synthesis.raised
                THEN ExceptException(synthesis, "Synthesis failed")
                ELSE JSONResponse([synthesis |-> synthesis.value,
                                   language |-> "English",
                                   provider |-> provider_name]),
                memory_store)

\* POST /generate-image
GenerateImage(provider_name, reply) ==
    LET image_data == main_generate_image(provider_name, reply)
    IN  Handled([op |-> "generate_image", provider |-> provider_name,
                 reply |-> reply],
                IF image_data.raised
                THEN ExceptException(image_data, "Image generation failed")
                ELSE JSONResponse([image |-> image_data.value,
                                   provider |-> provider_name]),
                memory_store)

\* generate_video_endpoint failing when no provider is selected.
Mut_VideoResponse(provider, reply) ==
    IF provider = None
    THEN HTTPException(503, "No video generation provider available")
    ELSE Invoke(provider, "generate_video", reply)

\* video_response in generate_video_endpoint: the placeholder when no provider
\* is selected, else provider.generate_video(request.prompt).
VideoResponse(provider, reply) ==
    IF provider = None
    THEN Value([status |-> "pending", message |-> "Video generation queued",
                type |-> "placeholder"])
    ELSE Invoke(provider, "generate_video", reply)

\* POST /generate-video
GenerateVideo(provider_name, reply) ==
    LET provider == get_video_provider(provider_name)
        video_response == VideoResponse(provider, reply)
    IN  Handled([op |-> "generate_video", provider |-> provider_name,
                 reply |-> reply],
                IF video_response.raised
                THEN ExceptException(video_response, "Video generation failed")
                ELSE JSONResponse(video_response.value
                                  @@ [provider |-> provider_name]),
                memory_store)

\* The names bound in main.py's module namespace that the handlers use;
\* main.py imports AIProviderManager from providers and never imports genai.
MainGlobals == {"provider_manager", "memory_store", "chat_history", "logger"}

\* What the intent model would answer.
IntentAnswers == {"IMAGE", " video ", "unsure"}

\* response.text.strip().upper()
StripUpper(answer) ==
    CASE answer = " video " -> "VIDEO"
      [] answer = "unsure" -> "UNSURE"
      [] OTHER -> answer

ValidIntents == {"TEXT", "IMAGE", "VIDEO", "AUDIO"}

\* The try block of detect_intent: looking up the global name genai raises
\* NameError when the module does not bind it.
DetectIntentBody(answer, reply) ==
    IF "genai" \notin MainGlobals THEN Raised("NameError", FALSE)
    ELSE IF reply = "error" THEN Raised("Exception", TRUE)
    ELSE Value(IF StripUpper(answer) \in ValidIntents THEN StripUpper(answer)
               ELSE "TEXT")

\* detect_intent's except branch re-raising as the other handlers do.
Mut_DetectIntentResponse(body) ==
    IF body.raised THEN HTTPException(500, "Intent detection failed")
    ELSE JSONResponse([intent |-> body.value])

\* detect_intent: the response for the outcome of its try block; the except
\* branch returns a JSONResponse.
DetectIntentResponse(body) ==
    IF body.raised THEN JSONResponse([intent |-> "TEXT", error |-> body.error])
    ELSE JSONResponse([intent |-> body.value])

\* POST /detect-intent
DetectIntent(answer, reply) ==
    Handled([op |-> "detect_intent", answer |-> answer, reply |-> reply],
            DetectIntentResponse(DetectIntentBody(answer, reply)),
            memory_store)

InitChat ==
    /\ ManagerInit(GeminiOnly)
    /\ avail = [v \in Vendors |-> TRUE]
    /\ memory_store = EmptyStore
    /\ chat_history = <<>>
    /\ now = 0
    /\ http = NoRequest
    /\ inflight = <<>>

NextChat ==
    \/ Tick
    \/ VendorChange("gemini")
    \/ \E request \in ChatRequests, reply \in HandlerReplies : Chat(request, reply)
    \/ \E limit \in {0, 1, 50} : GetChatHistory(limit)
    \/ ClearChatHistory
    \/ \E content \in SynthesisContents, reply \in HandlerReplies :
          Synthesize(content, None, reply)
    \/ \E name \in {None, "stability"}, reply \in HandlerReplies :
          GenerateImage(name, reply)
    \/ \E name \in {None, "stability"}, reply \in HandlerReplies :
          GenerateVideo(name, reply)
    \/ \E answer \in IntentAnswers, reply \in HandlerReplies :
          DetectIntent(answer, reply)

SpecChat == InitChat /\ [][NextChat]_vars

(***************************************************************************)
(* backend/main.py: POST /upload                                           *)
(***************************************************************************)

\* Bytes are written in hex, except the ASCII letters, which stand for
\* themselves.  c3 a9 is the UTF-8 encoding of the one character e-acute;
\* ff occurs in no UTF-8 encoding.
AsciiBytes == {"a", "b"}
EAcute == "e-acute"

\* contents.decode('utf-8') does not raise: every byte is an ASCII byte, or
\* the lead byte c3 followed by a9, or a9 following c3.
ValidUtf8(contents) ==
    \A i \in 1..Len(contents) :
        \/ contents[i] \in AsciiBytes
        \/ contents[i] = "c3" /\ i < Len(contents) /\ contents[i + 1] = "a9"
        \/ contents[i] = "a9" /\ i > 1 /\ contents[i - 1] = "c3"

\* contents.decode('utf-8') of valid contents: one character per ASCII byte
\* and one per two-byte encoding.
DecodeUtf8(contents) ==
    LET chars == [i \in 1..Len(contents) |->
                     IF contents[i] = "c3" THEN EAcute ELSE contents[i]]
        IsChar(c) == c # "a9"
    IN  SelectSeq(chars, IsChar)

\* text_content[:5000]
UploadLimit == 5000

\* f"doc-{file.filename}-{datetime.now().timestamp()}"
DocId(filename, stamp) == "doc-" \o filename \o "-" \o ToString(stamp)

\* The content types upload_file stores the text of.
DocumentTypes == {"text/plain", "application/pdf"}

\* The inner try of upload_file: decode and store, `except: pass`.
StoreDocument(store, file, stamp) ==
    IF file.content_type \in DocumentTypes /\ ValidUtf8(file.contents)
    THEN store_memory(store, DocId(file.filename, stamp),
                      SliceTo(DecodeUtf8(file.contents), UploadLimit),
                      <<{<<"filename", file.filename>>, <<"type", "document">>}>>,
                      stamp)
    ELSE store

\* Uploaded files: short valid ones with a two-byte character, one of 5002
\* bytes that decodes to 5001 characters, one with a byte that is no UTF-8,
\* one cut inside a two-byte character, and an image.
UploadFiles ==
    {[filename |-> "f1", content_type |-> "text/plain",
      contents |-> <<"c3", "a9", "a">>],
     [filename |-> "f1", content_type |-> "application/pdf",
      contents |-> <<"b">>],
     [filename |-> "f2", content_type |-> "text/plain",
      contents |-> Repeat("a", 5000) \o <<"c3", "a9">>],
     [filename |-> "f1", content_type |-> "text/plain",
      contents |-> <<"a", "ff">>],
     [filename |-> "f2", content_type |-> "application/pdf",
      contents |-> <<"a", "c3">>],
     [filename |-> "f2", content_type |-> "image/png",
      contents |-> <<"a", "b">>]}

\* Records kept before the model stops taking uploads.
MaxUploads == 3

\* POST /upload.  The handler's readings of the clock are one reading.
Upload(file) ==
    /\ Len(memory_store) < MaxUploads
    /\ Handled([op |-> "upload", file |-> file],
               JSONResponse([status |-> "success",
                             file_info |-> [filename |-> file.filename,
                                            content_type |-> file.content_type,
                                            size |-> Len(file.contents),
                                            timestamp |-> now]]),
               StoreDocument(memory_store, file, now))

InitUpload ==
    /\ ManagerInit(GeminiOnly)
    /\ avail = [v \in Vendors |-> TRUE]
    /\ memory_store = EmptyStore
    /\ chat_history = <<>>
    /\ now = 0
    /\ http = NoRequest
    /\ inflight = <<>>

NextUpload ==
    \/ Tick
    \/ \E file \in UploadFiles : Upload(file)
    \/ \E i \in 1..Len(memory_store) : DeleteMemory(memory_store[i].id)

SpecUpload == InitUpload /\ [][NextUpload]_vars

(***************************************************************************)
(* The whole backend: the provider manager's operations and every request  *)
(* handler of main.py, each with one or two inputs, within one reading of  *)
(* the clock                                                               *)
(***************************************************************************)

\* A chat request with a last message long enough to be committed.
LongChat ==
    CHOOSE request \in ChatRequests :
        /\ request.messages # <<>>
        /\ Len(request.messages[1].content) > AutoCommitMinLen

\* A valid text upload and an image upload.
AppUploads ==
    {file \in UploadFiles :
        \/ file.content_type = "image/png"
        \/ file.contents = <<"b">>}

InitApp ==
    /\ ManagerInit(GeminiOnly)
    /\ avail = [v \in Vendors |-> TRUE]
    /\ memory_store = EmptyStore
    /\ chat_history = <<>>
    /\ now = 0
    /\ http = NoRequest
    /\ inflight = <<>>

NextApp ==
    \/ VendorChange("gemini")
    \/ GetProvider(None)
    \/ GetTextProvider(None)
    \/ GetImageProvider(None)
    \/ GetVoiceProvider(None)
    \/ GetVideoProvider(None)
    \/ ListAvailableProviders
    \/ GetProviderInfo
    \/ IngestMemory("m1", <<"c">>, <<>>)
    \/ QueryMemory(<<"a">>, 1)
    \/ \E i \in 1..Len(memory_store) : DeleteMemory(memory_store[i].id)
    \/ ListAllMemory
    \/ \E reply \in HandlerReplies : Chat(LongChat, reply)
    \/ GetChatHistory(1)
    \/ ClearChatHistory
    \/ Synthesize(<<"a", "b">>, None, "text")
    \/ GenerateImage(None, "text")
    \/ GenerateVideo(None, "text")
    \/ DetectIntent("IMAGE", "text")
    \/ \E file \in AppUploads : Upload(file)

SpecApp == InitApp /\ [][NextApp]_vars

(***************************************************************************)
(* Properties of the provider manager (checked under SpecManager)          *)
(***************************************************************************)

Selectors ==
    {"get_text_provider", "get_image_provider", "get_voice_provider",
     "get_video_provider"}

Configured(name) == name \in Range(providers)

\* The first entry of a preference order that is configured and available,
\* None when there is none.
FirstLive(order) ==
    LET live == {i \in 1..Len(order) : Configured(order[i]) /\ avail[order[i]]}
    IN  IF live = {} THEN None
        ELSE order[CHOOSE i \in live : \A j \in live : i <= j]

\* C1: a capability selector called with an explicit provider name that is not
\* a configured adapter returns none, never the primary or another adapter.
C1_UnconfiguredNameYieldsNone ==
    (call.op \in Selectors /\ call.name # None /\ ~Configured(call.name))
        => call.result = None

\* C2: a capability selector called with an explicit provider name that is
\* configured but currently unavailable returns none, never another adapter.
C2_UnavailableNameYieldsNone ==
    (call.op \in Selectors /\ call.name # None /\ Configured(call.name)
        /\ ~avail[call.name])
        => call.result = None

\* C3: get_text_provider with no name returns the first configured and
\* available adapter in the order OpenAI, Anthropic, Gemini; none iff every
\* one of them is unconfigured or unavailable; never Stability or ElevenLabs.
C3_TextDefaultOrder ==
    (call.op = "get_text_provider" /\ call.name = None)
        => /\ call.result = FirstLive(<<"openai", "anthropic", "gemini">>)
           /\ call.result \in {None, "openai", "anthropic", "gemini"}
           /\ (call.result = None) <=>
                  \A v \in {"openai", "anthropic", "gemini"} :
                      ~Configured(v) \/ ~avail[v]

\* C3 witness: OpenAI is configured but down, and the default text selection
\* fell back to Anthropic.
C3_Witness ==
    /\ call.op = "get_text_provider" /\ call.name = None
    /\ Configured("openai") /\ ~avail["openai"]
    /\ Configured("gemini") /\ avail["gemini"]
    /\ call.result = "anthropic"

\* C4: get_image_provider with no name returns the first configured and
\* available adapter in the order Stability, OpenAI, Gemini; none iff every
\* one of them is unconfigured or unavailable; the order is not the text
\* order, and the result is that of the current state whatever was called
\* before.
C4_ImageDefaultOrder ==
    /\ ImageOrder # TextOrder
    /\ (call.op = "get_image_provider" /\ call.name = None)
        => /\ call.result = FirstLive(<<"stability", "openai", "gemini">>)
           /\ (call.result = None) <=>
                  \A v \in {"stability", "openai", "gemini"} :
                      ~Configured(v) \/ ~avail[v]

\* C4 witness: Stability and OpenAI are both live; the default image
\* selection returned Stability where the text order would put OpenAI first.
C4_Witness ==
    /\ call.op = "get_image_provider" /\ call.name = None
    /\ Configured("stability") /\ avail["stability"]
    /\ Configured("openai") /\ avail["openai"]
    /\ call.result = "stability"
    /\ get_text_provider(None) = "openai"

\* C5: get_voice_provider with no name returns the ElevenLabs adapter whenever
\* an ElevenLabs credential was present at startup and ElevenLabs is
\* available; the secondary candidate is returned only when ElevenLabs is
\* unconfigured or unavailable.
C5_VoicePrefersElevenLabs ==
    (call.op = "get_voice_provider" /\ call.name = None)
        => /\ ("elevenlabs" \in env.keys /\ avail["elevenlabs"])
                  => call.result = "elevenlabs"
           /\ (call.result \notin {None, "elevenlabs"})
                  => ("elevenlabs" \notin env.keys \/ ~avail["elevenlabs"])

\* C6: get_video_provider with no name returns the Gemini adapter when it is
\* configured and available and none otherwise.
C6_VideoDefaultGemini ==
    (call.op = "get_video_provider" /\ call.name = None)
        => call.result =
              (IF Configured("gemini") /\ avail["gemini"] THEN "gemini" ELSE None)

\* C6 witness: Gemini is down while another configured vendor is live, and the
\* default video selection returned none.
C6_Witness ==
    /\ call.op = "get_video_provider" /\ call.name = None
    /\ Configured("gemini") /\ ~avail["gemini"]
    /\ Configured("openai") /\ avail["openai"]
    /\ primary_provider = "openai"
    /\ call.result = None

\* C7: get_provider returns the named adapter when the name is configured,
\* otherwise the primary adapter, and raises exactly when no adapter is
\* configured.
C7_GetProvider ==
    (call.op = "get_provider")
        => /\ (call.name # None /\ Configured(call.name))
                  => call.result = call.name
           /\ (call.name = None \/ ~Configured(call.name))
                  => (call.result = Raise
                      \/ (call.result = primary_provider
                          /\ Configured(call.result)))
           /\ (call.result = Raise) <=> (providers = <<>>)

\* C7 witness: a name that is not configured resolved to the primary adapter.
C7_Witness ==
    /\ call.op = "get_provider"
    /\ call.name # None /\ ~Configured(call.name)
    /\ call.result = primary_provider
    /\ call.result = "stability"
    /\ Len(providers) = 2

\* C20: list_available_providers returns a mapping whose keys are exactly the
\* configured adapters, each mapped to its current availability; an adapter
\* whose probe fails is reported false and the others are still reported.
C20_ListAvailable ==
    (call.op = "list_available_providers")
        => /\ DOMAIN call.result = {v \in Vendors : Configured(v)}
           /\ \A v \in DOMAIN call.result : call.result[v] = avail[v]

\* C20 witness: three adapters are configured, the first one probed is down
\* and a later one is up; all three are reported.
C20_Witness ==
    /\ call.op = "list_available_providers"
    /\ Len(providers) = 3
    /\ call.result[providers[1]] = FALSE
    /\ call.result[providers[3]] = TRUE

\* The order initialize_providers configures the adapters in.
InitializationOrder == <<"gemini", "openai", "anthropic", "stability", "elevenlabs">>

\* C22: the primary provider is the explicitly configured name when that
\* adapter is configured, otherwise the first configured adapter in
\* initialization order; it is always a key of the mapping, and unset iff no
\* adapter is configured.
C22_PrimaryProvider ==
    LET configured == {i \in 1..Len(InitializationOrder) :
                          Configured(InitializationOrder[i])}
        first == InitializationOrder[CHOOSE i \in configured :
                                         \A j \in configured : i <= j]
    IN  /\ Configured(env.primary) => primary_provider = env.primary
        /\ (~Configured(env.primary) /\ configured # {})
               => primary_provider = first
        /\ primary_provider # None => Configured(primary_provider)
        /\ (primary_provider = None) <=> (providers = <<>>)

\* C22 witness: PRIMARY_AI_PROVIDER names an adapter that is not configured
\* and the primary is the first configured one, which is not Gemini.
C22_Witness ==
    /\ env.primary = "stability"
    /\ ~Configured("stability")
    /\ primary_provider = "openai"
    /\ Len(providers) = 2

C21_ManagerImmutable ==
    [][providers' = providers /\ primary_provider' = primary_provider]_vars

\* C21 witness: manager operations and handlers have run (a chat committed a
\* record, then get_provider_info was called) and the mapping is the one
\* initialization built.
C21_Witness ==
    /\ call.op = "get_provider_info"
    /\ http.op = "chat"
    /\ memory_store # <<>>
    /\ providers = InitialProviders(env)
    /\ primary_provider = "gemini"

\* The handlers that write to the memory store.
StoreWriters == {"ingest", "delete", "chat", "upload"}

\* C24: the memory store is changed only by ingest, delete, a successful
\* chat's auto-commit and an upload; a chat changes no record but the one it
\* commits; every other handler leaves every record as it was.
C24_StoreWriters ==
    [][ memory_store' # memory_store
          => /\ http'.op \in StoreWriters
             /\ http'.before = memory_store
             /\ http'.op = "chat"
                   => /\ ~http'.response.raised
                      /\ DelKey(memory_store', ChatId(http'.at))
                             = DelKey(memory_store, ChatId(http'.at)) ]_vars

\* C24 witness: a query ran on a store holding an ingested, a committed and
\* an uploaded record and left it as it was.
C24_Witness ==
    /\ http.op = "query"
    /\ Len(http.before) = 3
    /\ memory_store = http.before

(***************************************************************************)
(* Properties of concurrent ingests (checked under SpecConcurrent)         *)
(***************************************************************************)

\* The requests that have assigned their record.
Writers == {i \in DOMAIN inflight : inflight[i].pc \in {"stored", "done"}}

\* The record request i writes, field for field.
RecordOf(i) ==
    LET request == ConcurrentRequests[i]
    IN  [id |-> request.id, text |-> request.text,
         metadata |-> IF request.metadata = <<>> THEN {} ELSE request.metadata[1],
         timestamp |-> inflight[i].stamp, embeddings |-> request.text]

\* C25: with ingests for one id interleaved in any way, the store holds one
\* record for the id as soon as one of them has written, that record is
\* field for field the record of the request that wrote last, and the
\* record under another id stays as it was.
C25_LastWriterWins ==
    (inflight # <<>>)
        => LET mine == {k \in 1..Len(memory_store) : memory_store[k].id = "m1"}
               others == {k \in 1..Len(memory_store) : memory_store[k].id = "m2"}
           IN  /\ Cardinality(mine) <= 1
               /\ Writers = {} => memory_store \in ConcurrentStores
               /\ Writers # {}
                      => LET last == CHOOSE i \in Writers :
                                 \A j \in Writers :
                                     inflight[j].order <= inflight[i].order
                         IN  /\ Cardinality(mine) = 1
                             /\ \A k \in mine : memory_store[k] = RecordOf(last)
               /\ Cardinality(others) = 1
               /\ \A k \in others :
                      memory_store[k] =
                          [id |-> "m2", text |-> <<"c">>,
                           metadata |-> {<<"test", TRUE>>},
                           timestamp |-> 0, embeddings |-> <<"c">>]
               /\ Len(memory_store) = Cardinality(mine) + 1

\* C25 witness: all three requests are done; the one that read the clock
\* first wrote last, and its record, with the oldest timestamp, is the one
\* the store holds.
C25_Witness ==
    /\ inflight # <<>>
    /\ \A i \in DOMAIN inflight : inflight[i].pc = "done"
    /\ inflight[1].order = 3
    /\ inflight[1].stamp = 0
    /\ inflight[2].stamp = 1
    /\ \E k \in 1..Len(memory_store) : memory_store[k] = RecordOf(1)

(***************************************************************************)
(* Properties of process startup (checked under SpecStartup)               *)
(***************************************************************************)

\* C26: startup is rejected exactly when no adapter is configured; with at
\* least one adapter configured the gate passes.
C26_StartupGate ==
    (call.op = "startup")
        => (call.result.started <=> (providers # <<>>))

(***************************************************************************)
(* Properties of the adapters (checked under SpecAdapter)                  *)
(***************************************************************************)

\* The capabilities the adapters do not support.
Unsupported ==
    {<<"anthropic", "generate_image">>, <<"stability", "generate_text">>,
     <<"elevenlabs", "generate_text">>, <<"elevenlabs", "generate_image">>}
        \cup {<<v, "text_to_speech">> : v \in Vendors \ {"elevenlabs"}}

\* C19: calling a capability an adapter does not support fails with the
\* 'capability not supported' error (NotImplementedError) and no vendor call is
\* attempted.
C19_UnsupportedNotImplemented ==
    (call.op = "adapter" /\ <<call.name, call.method>> \in Unsupported)
        => /\ call.result.raised
           /\ call.result.error = "NotImplementedError"
           /\ ~call.result.vendor_called

\* C30: generate_text of the Gemini, OpenAI and Anthropic adapters returns
\* "No response generated" when the vendor call succeeds with empty content,
\* and raises when the vendor call fails.
C30_EmptyContentPlaceholder ==
    (call.op = "adapter" /\ call.method = "generate_text"
        /\ call.name \in {"gemini", "openai", "anthropic"})
        => /\ call.reply = "empty"
                 => /\ ~call.result.raised
                    /\ call.result.value = <<"No response generated">>
           /\ call.reply = "error" => call.result.raised

(***************************************************************************)
(* Properties of the memory store (checked under SpecMemory)               *)
(***************************************************************************)

\* The characters i..j of q are a whitespace-separated word of q.
IsWordAt(q, i, j) ==
    /\ i <= j
    /\ \A k \in i..j : q[k] # " "
    /\ (i = 1 \/ q[i - 1] = " ")
    /\ (j = Len(q) \/ q[j + 1] = " ")

\* Some word of the lowercased query occurs in the lowercased text.
WordMatch(text, query) ==
    LET q == Lower(query)
        t == Lower(text)
    IN  \E i \in 1..Len(q), j \in 1..Len(q) :
            /\ IsWordAt(q, i, j)
            /\ \E o \in 0..(Len(t) - (j - i + 1)) :
                   \A k \in 0..(j - i) : t[o + 1 + k] = q[i + k]

\* The texts of the matching records of a store, in insertion order.
MatchingTexts(store, query) ==
    LET Hit(value) == WordMatch(value.text, query)
        hits == SelectSeq(store, Hit)
    IN  [i \in 1..Len(hits) |-> hits[i].text]

\* The first k entries of a sequence (none for k <= 0).
FirstK(s, k) == [i \in 1..(IF k < Len(s) THEN (IF k < 0 THEN 0 ELSE k) ELSE Len(s)) |-> s[i]]

\* The texts of a sequence joined by single spaces.
SpaceJoined(texts) ==
    IF texts = <<>> THEN <<>>
    ELSE LET total == Len(texts)
             F[n \in 1..total] ==
                 IF n = 1 THEN texts[1] ELSE F[n - 1] \o <<" ">> \o texts[n]
         IN  F[total]

\* C8: search returns the space-joined texts of the first top_k matching
\* records in insertion order; the empty string for an empty store, no match
\* or a query without words; never more than top_k record texts.
C8_SearchFirstTopK ==
    (http.op = "query")
        => /\ ~http.response.raised
           /\ http.response.body.context =
                  SpaceJoined(FirstK(MatchingTexts(http.before, http.request.prompt),
                                     http.request.top_k))
           /\ (http.before = <<>>
               \/ MatchingTexts(http.before, http.request.prompt) = <<>>
               \/ \A i \in 1..Len(http.request.prompt) : http.request.prompt[i] = " ")
                  => http.response.body.context = <<>>

\* C9: store is an upsert.  Under an id already present the record's text,
\* metadata and timestamp are replaced, the number of records and every other
\* record stay; under a new id the number of records grows by exactly one.
C9_StoreUpsert ==
    (http.op = "ingest")
        => LET before == http.before
               r == http.request
               old == {i \in 1..Len(before) : before[i].id = r.id}
               new == {i \in 1..Len(memory_store) : memory_store[i].id = r.id}
           IN  /\ Cardinality(new) = 1
               /\ \A i \in new :
                      /\ memory_store[i].text = r.text
                      /\ memory_store[i].metadata =
                             (IF r.metadata = <<>> THEN {} ELSE r.metadata[1])
                      /\ memory_store[i].timestamp = http.at
               /\ \A i \in 1..Len(before) :
                      i \notin old => memory_store[i] = before[i]
               /\ old # {} => (Len(memory_store) = Len(before) /\ new = old)
               /\ old = {} => Len(memory_store) = Len(before) + 1

\* C9 witness: an ingest overwrote an existing record, changing its text,
\* metadata and timestamp, with another record stored beside it.
C9_Witness ==
    /\ http.op = "ingest"
    /\ Len(http.before) = 2
    /\ \E i \in 1..2 :
          /\ http.before[i].id = http.request.id
          /\ http.before[i].text # memory_store[i].text
          /\ http.before[i].metadata # memory_store[i].metadata
          /\ http.before[i].timestamp # memory_store[i].timestamp

\* C10: DELETE /memory/{id} on an absent id fails with HTTP 404 and leaves
\* the store unchanged; on a present id it removes exactly that record, so the
\* listing size decreases by exactly one.
C10_DeleteMemory ==
    (http.op = "delete")
        => LET before == http.before
               present == \E i \in 1..Len(before) : before[i].id = http.request.id
               Other(value) == value.id # http.request.id
           IN  /\ ~present => (http.response.status = 404 /\ memory_store = before)
               /\ present => /\ http.response.status = 200
                             /\ Len(memory_store) = Len(before) - 1
                             /\ memory_store = SelectSeq(before, Other)

(***************************************************************************)
(* Properties of the chat and generation handlers (checked under SpecChat) *)
(***************************************************************************)

\* The request of the last handler was served without raising.
Succeeded(op) == http.op = op /\ ~http.response.raised

\* The content of the last message of the last chat request.
LastMessage == http.request.messages[Len(http.request.messages)].content

\* C11: after a successful /chat whose last message is longer than 20
\* characters the store holds exactly one record more than before and the new
\* record's text is the message; with a last message of 20 characters or
\* fewer the store is unchanged.
C11_ChatAutoCommit ==
    (Succeeded("chat") /\ http.request.messages # <<>>)
        => IF Len(LastMessage) > AutoCommitMinLen
           THEN /\ Len(memory_store) = Len(http.before) + 1
                /\ SubSeq(memory_store, 1, Len(http.before)) = http.before
                /\ memory_store[Len(memory_store)].text = LastMessage
           ELSE memory_store = http.before

\* C13: every successful /chat appends exactly one entry at the end of the
\* history; a clear leaves the history empty and the memory store untouched;
\* no other step removes, reorders or rewrites an entry.
C13_HistoryAppendOnly ==
    [][ IF http' # http /\ http'.op = "chat" /\ ~http'.response.raised
        THEN /\ Len(chat_history') = Len(chat_history) + 1
             /\ SubSeq(chat_history', 1, Len(chat_history)) = chat_history
             /\ chat_history'[Len(chat_history')].response
                    = http'.response.body.response
        ELSE IF http' # http /\ http'.op = "clear_history"
        THEN chat_history' = <<>> /\ memory_store' = memory_store
        ELSE chat_history' = chat_history ]_vars

\* C13 witness: a clear emptied a history of two different entries while the
\* memory store held a record.
C13_Witness ==
    /\ http.op = "clear_history"
    /\ Len(http.history) = 2
    /\ http.history[1] # http.history[2]
    /\ chat_history = <<>>
    /\ memory_store # <<>>

\* No adapter is configured and live for the capability of the last request.
NoLiveAdapter ==
    CASE http.op = "chat" -> get_text_provider(http.request.provider) = None
      [] http.op = "synthesize" -> get_text_provider(env.primary) = None
      [] http.op = "generate_image" ->
             get_image_provider(http.request.provider) = None
      [] OTHER -> FALSE

\* C14: /chat, /synthesize and /generate-image answer HTTP 503 when no adapter
\* is configured and live for the capability.
C14_Unavailable503 ==
    NoLiveAdapter => (http.response.raised /\ http.response.status = 503)

\* C15: /generate-video answers 200 with the pending placeholder whenever
\* get_video_provider yields no adapter for the request.
C15_VideoPlaceholder ==
    (http.op = "generate_video"
     /\ get_video_provider(http.request.provider) = None)
        => /\ ~http.response.raised
           /\ http.response.status = 200
           /\ http.response.body.status = "pending"
           /\ http.response.body.type = "placeholder"

\* C15 witness: a video request was served while no video provider was live.
C15_Witness ==
    /\ http.op = "generate_video"
    /\ get_video_provider(http.request.provider) = None
    /\ ~avail["gemini"]

\* C16: /synthesize with a text provider configured and available and a
\* successful vendor call answers 200 with the summary.
C16_SynthesizeSucceeds ==
    (http.op = "synthesize"
     /\ get_text_provider(env.primary) # None
     /\ http.request.reply = "text")
        => /\ ~http.response.raised
           /\ http.response.body.synthesis = ReplyText

\* C17: /generate-image with a provider selected and a successful
\* generate_image call answers with the image reference the adapter returned.
C17_ImageReturned ==
    (http.op = "generate_image"
     /\ get_image_provider(http.request.provider) # None
     /\ http.request.reply = "text")
        => /\ ~http.response.raised
           /\ http.response.body.image
                  = generate_image(get_image_provider(http.request.provider),
                                   http.request.reply).value

\* C18: /detect-intent always answers 200 with an intent among TEXT, IMAGE,
\* VIDEO and AUDIO, and with TEXT when the classification call raises or
\* answers outside that set.
C18_DetectIntentDegrades ==
    (http.op = "detect_intent")
        => LET body == DetectIntentBody(http.request.answer, http.request.reply)
           IN  /\ ~http.response.raised
               /\ http.response.status = 200
               /\ http.response.body.intent \in ValidIntents
               /\ (body.raised \/ StripUpper(http.request.answer) \notin ValidIntents)
                      => http.response.body.intent = "TEXT"

\* C18 witness: the classification call raised and the answer is TEXT.
C18_Witness ==
    /\ http.op = "detect_intent"
    /\ DetectIntentBody(http.request.answer, http.request.reply).raised
    /\ http.response.body.intent = "TEXT"

\* C27: an adapter a capability selector returns implements what the caller
\* invokes on it: /generate-video succeeds whenever get_video_provider
\* returns an adapter, and the adapters get_text_provider and
\* get_image_provider return support text and image generation.
C27_SelectedAdapterImplements ==
    /\ (http.op = "generate_video"
        /\ get_video_provider(http.request.provider) # None)
           => ~http.response.raised
    /\ (http.op = "chat" /\ get_text_provider(http.request.provider) # None)
           => LET r == Invoke(get_text_provider(http.request.provider),
                              "generate_text", "text")
              IN  ~r.raised
    /\ (http.op = "generate_image"
        /\ get_image_provider(http.request.provider) # None)
           => LET r == Invoke(get_image_provider(http.request.provider),
                              "generate_image", "text")
              IN  ~r.raised

C29_HistoryLimit ==
    (http.op = "get_history")
        => LET n == http.request.limit
               all == http.history
               returned == http.response.body.history
               from == IF Len(all) > n THEN Len(all) - n ELSE 0
           IN  /\ Len(returned) <= n
               /\ returned = [i \in 1..(Len(all) - from) |-> all[from + i]]
               /\ http.response.body.total = Len(all)
               /\ n = 0 => returned = <<>>

(***************************************************************************)
(* Properties of POST /upload (checked under SpecUpload)                   *)
(***************************************************************************)

\* C12: an upload of valid UTF-8 bytes as text/plain or application/pdf
\* creates exactly one new record whose text is the first 5000 characters of
\* the decoded content; undecodable bytes create no record and the call
\* still succeeds; any other content type leaves the store unchanged.
C12_UploadStoresDocument ==
    (http.op = "upload")
        => LET file == http.request.file
           IN  /\ (file.content_type \in DocumentTypes /\ ValidUtf8(file.contents))
                      => /\ Len(memory_store) = Len(http.before) + 1
                         /\ SubSeq(memory_store, 1, Len(http.before)) = http.before
                         /\ memory_store[Len(memory_store)].text
                                = SubSeq(DecodeUtf8(file.contents), 1,
                                         IF Len(DecodeUtf8(file.contents)) < 5000
                                         THEN Len(DecodeUtf8(file.contents))
                                         ELSE 5000)
               /\ (file.content_type \in DocumentTypes /\ ~ValidUtf8(file.contents))
                      => (memory_store = http.before /\ http.response.status = 200)
               /\ file.content_type \notin DocumentTypes
                      => memory_store = http.before

====
